---- MODULE Spec2Model ----
(***************************************************************************)
(* Model of src/app.py: the Lambda/Vercel entry point `handler` (the       *)
(* webhook front door) and the Bolt listener                               *)
(* `handle_member_joined_channel` (the channel-join welcome handler).      *)
(*                                                                         *)
(* Python values are tagged records (field t is the Python type).  A str   *)
(* is a sequence of lexemes, so that a request body is the text json.loads *)
(* has to decode and a decoded string is again a str.  The slack_bolt      *)
(* objects (SlackRequestHandler.handle, client.auth_test,                  *)
(* client.chat_postMessage) are external: each call is recorded and its    *)
(* outcome is chosen nondeterministically.                                 *)
(***************************************************************************)
EXTENDS Integers, Sequences, FiniteSets, TLC

\* Number of requests the hosting runtime delivers (handled concurrently).
MaxRequests == 2
\* Number of member_joined_channel events Bolt dispatches to the listener.
MaxJoins == 2

Requests == 1..MaxRequests
Joins == 1..MaxJoins

-----------------------------------------------------------------------------
(* Python values *)

PyNone == [t |-> "None"]
PyStr(s) == [t |-> "str", s |-> s]
PyInt(n) == [t |-> "int", n |-> n]
PyBool(b) == [t |-> "bool", b |-> b]
PyList(xs) == [t |-> "list", xs |-> xs]
PyDict(d) == [t |-> "dict", d |-> d]

\* Lexemes of a str.
Tok(k) == [k |-> k]
StrTok(c) == [k |-> "str", c |-> c]
NumTok(n) == [k |-> "num", n |-> n]
Chars(c) == [k |-> "chars", c |-> c]

\* The str whose characters are the (non-empty) run c; Lit("") is ''.
Lit(c) == PyStr(IF c = "" THEN <<>> ELSE <<Chars(c)>>)

\* bool(v): Python truth value testing.
Truthy(v) ==
    CASE v.t = "None" -> FALSE
      [] v.t = "str" -> v.s # <<>>
      [] v.t = "int" -> v.n # 0
      [] v.t = "bool" -> v.b
      [] v.t = "list" -> v.xs # <<>>
      [] v.t = "dict" -> DOMAIN v.d # {}

\* a == b for the values compared in app.py (never int against bool).
PyEq(a, b) == a.t = b.t /\ a = b

\* d.get(key) on a dict
DictGet(v, key) == IF key \in DOMAIN v.d THEN v.d[key] ELSE PyNone

\* hasattr(v, "get"): only dict has .get among the decoded JSON values
HasGet(v) == v.t = "dict"

-----------------------------------------------------------------------------
(* json.loads *)

NoParse == [ok |-> FALSE]
Parsed(v, rest) == [ok |-> TRUE, val |-> v, rest |-> rest]
EmptyDict == [k \in {} |-> PyNone]

RECURSIVE ParseValue(_), ParseElements(_, _), ParseMembers(_, _)

\* One JSON value at the head of toks.
ParseValue(toks) ==
    IF toks = <<>> THEN NoParse
    ELSE LET h == Head(toks)
             r == Tail(toks)
         IN CASE h.k = "str" -> Parsed(Lit(h.c), r)
              [] h.k = "num" -> Parsed(PyInt(h.n), r)
              [] h.k = "true" -> Parsed(PyBool(TRUE), r)
              [] h.k = "false" -> Parsed(PyBool(FALSE), r)
              [] h.k = "null" -> Parsed(PyNone, r)
              [] h.k = "[" ->
                    IF r # <<>> /\ Head(r).k = "]"
                    THEN Parsed(PyList(<<>>), Tail(r))
                    ELSE ParseElements(r, <<>>)
              [] h.k = "{" ->
                    IF r # <<>> /\ Head(r).k = "}"
                    THEN Parsed(PyDict(EmptyDict), Tail(r))
                    ELSE ParseMembers(r, EmptyDict)
              [] OTHER -> NoParse

\* value (, value)* ]
ParseElements(toks, acc) ==
    LET v == ParseValue(toks)
    IN IF ~v.ok \/ v.rest = <<>> THEN NoParse
       ELSE IF Head(v.rest).k = ","
            THEN ParseElements(Tail(v.rest), Append(acc, v.val))
       ELSE IF Head(v.rest).k = "]"
            THEN Parsed(PyList(Append(acc, v.val)), Tail(v.rest))
       ELSE NoParse

\* "key" : value (, "key" : value)* }   -- a repeated key keeps the last value
ParseMembers(toks, acc) ==
    IF Len(toks) < 2 \/ toks[1].k # "str" \/ toks[2].k # ":" THEN NoParse
    ELSE LET v == ParseValue(SubSeq(toks, 3, Len(toks)))
         IN IF ~v.ok \/ v.rest = <<>> THEN NoParse
            ELSE LET d == (toks[1].c :> v.val) @@ acc
                 IN IF Head(v.rest).k = ","
                    THEN ParseMembers(Tail(v.rest), d)
                    ELSE IF Head(v.rest).k = "}"
                         THEN Parsed(PyDict(d), Tail(v.rest))
                         ELSE NoParse

NotWs(tok) == tok.k # "ws"

\* json.loads(v): the decoded value, or the exception raised.
\* TypeError for a non-str, JSONDecodeError for a str that is not one JSON
\* document (whitespace around tokens is skipped, extra data is an error).
json_loads(v) ==
    IF v.t # "str" THEN [exc |-> "TypeError"]
    ELSE LET p == ParseValue(SelectSeq(v.s, NotWs))
         IN IF p.ok /\ p.rest = <<>>
            THEN [exc |-> "none", val |-> p.val]
            ELSE [exc |-> "JSONDecodeError"]

-----------------------------------------------------------------------------
(* Inputs of the front door: the Lambda events the runtime may deliver *)

Member(key, vtoks) == <<StrTok(key), Tok(":")>> \o vtoks
Object2(m1, m2) == <<Tok("{")>> \o m1 \o <<Tok(",")>> \o m2 \o <<Tok("}")>>
Object1(m1) == <<Tok("{")>> \o m1 \o <<Tok("}")>>

\* The text {"type": <ty>, "challenge": <ch>}
TypeChallenge(ty, ch) == Object2(Member("type", ty), Member("challenge", ch))
UrlVerification(ch) == TypeChallenge(<<StrTok("url_verification")>>, ch)

JsonTexts ==
    { UrlVerification(<<StrTok("abc123")>>),
      <<Tok("ws")>> \o UrlVerification(<<StrTok("c2")>>) \o <<Tok("ws")>>,
      Object1(Member("type", <<StrTok("url_verification")>>)),
      UrlVerification(<<StrTok("")>>),
      UrlVerification(<<NumTok(123)>>),
      UrlVerification(<<Tok("true")>>),
      UrlVerification(<<Tok("[")>> \o <<StrTok("x")>> \o <<Tok("]")>>),
      UrlVerification(Object1(Member("a", <<StrTok("b")>>))),
      TypeChallenge(<<StrTok("event_callback")>>, <<StrTok("abc123")>>),
      <<Tok("["), NumTok(1), Tok("]")>>,
      <<NumTok(5)>>,
      <<StrTok("url_verification")>>,
      <<Tok("null")>> }

NonJsonTexts ==
    { <<Chars("payload=%7B%7D")>>,
      <<Tok("ws")>>,
      \* truncated document
      <<Tok("{")>> \o Member("type", <<StrTok("url_verification")>>),
      \* extra data after the document
      UrlVerification(<<StrTok("abc123")>>) \o <<Chars("x")>> }

\* Values of event['body'] that are not text.
NonTextBodies ==
    { PyNone,
      PyDict(("type" :> Lit("url_verification")) @@ ("challenge" :> Lit("abc123"))) }

Bodies == {PyStr(s) : s \in JsonTexts \cup NonJsonTexts \cup {<<>>}} \cup NonTextBodies

\* A Lambda proxy event, with or without the 'body' key.
EventWith(b) == PyDict(("httpMethod" :> Lit("POST")) @@ ("body" :> b))
EventWithoutBody == PyDict("httpMethod" :> Lit("GET"))
Events == {EventWith(b) : b \in Bodies} \cup {EventWithoutBody}

Contexts == {"ctx"}

\* What SlackRequestHandler.handle may answer (Bolt's own responses).
BoltResponse(status, text) ==
    PyDict(("statusCode" :> PyInt(status)) @@ ("body" :> Lit(text)))
CollabResponses == {BoltResponse(200, ""), BoltResponse(401, "invalid request")}

\* Process-wide configuration read from the environment at import time.
Config ==
    [signing_secret |-> Lit("secret"), token |-> Lit("xoxb"), process_before_response |-> TRUE]

-----------------------------------------------------------------------------
(* handler(event, context) *)

VARIABLES
    bolt_app,     \* module global: the App configuration (lines 14-18)
    event,        \* event[r]: the dict the runtime passed to invocation r
    context,      \* context[r]
    pc,           \* pc[r]: position of invocation r in handler
    body_str,     \* local body_str of invocation r
    body,         \* local body of invocation r
    log,          \* log[r]: records invocation r emitted through logger
    calls,        \* calls[r]: argument lists of slack_handler.handle made by r
    answer,       \* answer[r]: what slack_handler.handle returned to r
    response      \* response[r]: values handler returned to the runtime

doorVars == <<bolt_app, event, context, pc, body_str, body, log, calls, answer, response>>

VARIABLES
    jpc,          \* jpc[j]: position of listener invocation j
    jevent,       \* jevent[j]: the event Bolt passed to invocation j
    user_id,      \* local user_id
    channel_id,   \* local channel_id
    auth,         \* auth[j]: outcome of the client.auth_test() call made by j
    posts,        \* posts[j]: keyword arguments of the chat_postMessage calls made by j
    postExc,      \* postExc[j]: what the chat_postMessage call raised ("none" if sent)
    jlog          \* jlog[j]: records invocation j emitted through logger

joinVars == <<jpc, jevent, user_id, channel_id, auth, posts, postExc, jlog>>

vars == <<doorVars, joinVars>>

Unset == [t |-> "unset"]

HTTPStatus_OK == 200

\* Mutant of EchoResponse: the challenge wrapped in a JSON document.
EchoResponseJson(challenge) ==
    PyDict(("statusCode" :> PyInt(HTTPStatus_OK))
           @@ ("headers" :> PyDict("Content-Type" :> Lit("application/json")))
           @@ ("body" :> PyDict("challenge" :> challenge)))

\* The dict returned at lines 87-91.
EchoResponse(challenge) ==
    PyDict(("statusCode" :> PyInt(HTTPStatus_OK))
           @@ ("headers" :> PyDict("Content-Type" :> Lit("text/plain")))
           @@ ("body" :> challenge))

LogRecord(level, msg) == [level |-> level, msg |-> msg]

\* Mutant of ExceptClauses: the JSONDecodeError clause re-raises.
ExceptClausesReraise(exc) ==
    CASE exc = "JSONDecodeError" -> [pc |-> "raised", log |-> <<>>]
      [] exc \in {"TypeError", "AttributeError"} ->
            [pc |-> "L105",
             log |-> <<LogRecord("error", "Custom handler pre-processing error")>>]

\* Mutant of ExceptClauses: no `except Exception` clause.
ExceptClausesDecodeOnly(exc) ==
    CASE exc = "JSONDecodeError" ->
            [pc |-> "L105",
             log |-> <<LogRecord("warning", "JSON decode failed. Delegating to SlackRequestHandler for verification.")>>]
      [] OTHER -> [pc |-> "raised", log |-> <<>>]

\* The except clauses of lines 93-101: where control goes and what is logged
\* when exc is raised inside the try block.
ExceptClauses(exc) ==
    CASE exc = "JSONDecodeError" ->
            [pc |-> "L105",
             log |-> <<LogRecord("warning", "JSON decode failed. Delegating to SlackRequestHandler for verification.")>>]
      [] exc \in {"TypeError", "AttributeError"} ->
            [pc |-> "L105",
             log |-> <<LogRecord("error", "Custom handler pre-processing error")>>]

\* Mutant of UrlVerificationCheck: `if challenge is not None`.
UrlVerificationCheckNotNone(b) ==
    IF ~HasGet(b) THEN [kind |-> "raise", exc |-> "AttributeError"]
    ELSE IF PyEq(DictGet(b, "type"), Lit("url_verification"))
         THEN LET challenge == DictGet(b, "challenge")
              IN IF challenge.t # "None"
                 THEN [kind |-> "return", value |-> EchoResponse(challenge)]
                 ELSE [kind |-> "logged"]
         ELSE [kind |-> "pass"]

\* Lines 82-91 on the decoded body b: the outcome of the if-statements.
\* body.get raises AttributeError when b has no .get.
UrlVerificationCheck(b) ==
    IF ~HasGet(b) THEN [kind |-> "raise", exc |-> "AttributeError"]
    ELSE IF PyEq(DictGet(b, "type"), Lit("url_verification"))
         THEN LET challenge == DictGet(b, "challenge")
              IN IF Truthy(challenge)
                 THEN [kind |-> "return", value |-> EchoResponse(challenge)]
                 ELSE [kind |-> "logged"]
         ELSE [kind |-> "pass"]

InfoUrlVerification == LogRecord("info", "Handling custom URL Verification request.")

\* The runtime invokes handler(event, context) with an event of evs.
ReceiveFrom(r, evs) ==
    /\ pc[r] = "idle"
    /\ \E ev \in evs, ctx \in Contexts :
          /\ event' = [event EXCEPT ![r] = ev]
          /\ context' = [context EXCEPT ![r] = ctx]
    /\ pc' = [pc EXCEPT ![r] = "L71"]
    /\ UNCHANGED <<bolt_app, body_str, body, log, calls, answer, response, joinVars>>

Receive(r) == ReceiveFrom(r, Events)

\* Mutant of NoBody: `body_str is None`.
NoBodyIsNone(b) == b.t = "None"

\* Line 74: `not body_str`
NoBody(b) == ~Truthy(b)

\* Lines 71-74: body_str = event.get('body'); if not body_str
GetBody(r) ==
    /\ pc[r] = "L71"
    /\ LET b == DictGet(event[r], "body")
       IN /\ body_str' = [body_str EXCEPT ![r] = b]
          /\ pc' = [pc EXCEPT ![r] = IF NoBody(b) THEN "L75" ELSE "L79"]
    /\ UNCHANGED <<bolt_app, event, context, body, log, calls, answer, response, joinVars>>

\* json.loads is a pure function: its result on every body the runtime may
\* deliver, computed once.
Decoded == [b \in Bodies |-> json_loads(b)]

\* Line 79: body = json.loads(body_str), with the except clauses.
Loads(r) ==
    /\ pc[r] = "L79"
    /\ LET j == Decoded[body_str[r]]
       IN IF j.exc = "none"
          THEN /\ body' = [body EXCEPT ![r] = j.val]
               /\ pc' = [pc EXCEPT ![r] = "L82"]
               /\ UNCHANGED log
          ELSE /\ pc' = [pc EXCEPT ![r] = ExceptClauses(j.exc).pc]
               /\ log' = [log EXCEPT ![r] = @ \o ExceptClauses(j.exc).log]
               /\ UNCHANGED body
    /\ UNCHANGED <<bolt_app, event, context, body_str, calls, answer, response, joinVars>>

\* Lines 82-91 run by invocation r on the decoded body b, with the except clauses.
CheckOn(r, b) ==
    /\ LET c == UrlVerificationCheck(b)
       IN CASE c.kind = "return" ->
                 /\ log' = [log EXCEPT ![r] = Append(@, InfoUrlVerification)]
                 /\ response' = [response EXCEPT ![r] = Append(@, c.value)]
                 /\ pc' = [pc EXCEPT ![r] = "done"]
            [] c.kind = "logged" ->
                 /\ log' = [log EXCEPT ![r] = Append(@, InfoUrlVerification)]
                 /\ pc' = [pc EXCEPT ![r] = "L105"]
                 /\ UNCHANGED response
            [] c.kind = "pass" ->
                 /\ pc' = [pc EXCEPT ![r] = "L105"]
                 /\ UNCHANGED <<log, response>>
            [] c.kind = "raise" ->
                 /\ pc' = [pc EXCEPT ![r] = ExceptClauses(c.exc).pc]
                 /\ log' = [log EXCEPT ![r] = @ \o ExceptClauses(c.exc).log]
                 /\ UNCHANGED response
    /\ UNCHANGED <<bolt_app, event, context, body_str, body, calls, answer, joinVars>>

\* Mutant of CheckUrlVerification: `body` is a module global, so the test
\* reads what any invocation decoded last.
CheckUrlVerificationGlobalBody(r) ==
    /\ pc[r] = "L82"
    /\ \E q \in Requests : body[q] # Unset /\ CheckOn(r, body[q])

\* Lines 82-91: invocation r tests its own local `body`.
CheckUrlVerification(r) ==
    /\ pc[r] = "L82"
    /\ CheckOn(r, body[r])

\* The arguments handler passes to slack_handler.handle (lines 75 and 105).
HandleArgs(r) == [event |-> event[r], context |-> context[r]]

\* Mutant of Delegate: line 75 lacks its `return`, so handler calls
\* slack_handler.handle and carries on into the try block.
DelegateNoReturn(r) ==
    /\ pc[r] \in {"L75", "L105"}
    /\ calls' = [calls EXCEPT ![r] = Append(@, [event |-> event[r], context |-> context[r]])]
    /\ pc' = [pc EXCEPT ![r] = IF pc[r] = "L75" THEN "L79" ELSE "handle"]
    /\ UNCHANGED <<bolt_app, event, context, body_str, body, log, answer, response, joinVars>>

\* Lines 75 and 105: slack_handler.handle(event, context) is called.
Delegate(r) ==
    /\ pc[r] \in {"L75", "L105"}
    /\ calls' = [calls EXCEPT ![r] = Append(@, HandleArgs(r))]
    /\ pc' = [pc EXCEPT ![r] = "handle"]
    /\ UNCHANGED <<bolt_app, event, context, body_str, body, log, answer, response, joinVars>>

\* slack_handler.handle returns and handler returns its value.
HandleReturns(r) ==
    /\ pc[r] = "handle"
    /\ \E resp \in CollabResponses :
          /\ answer' = [answer EXCEPT ![r] = resp]
          /\ response' = [response EXCEPT ![r] = Append(@, resp)]
    /\ pc' = [pc EXCEPT ![r] = "done"]
    /\ UNCHANGED <<bolt_app, event, context, body_str, body, log, calls, joinVars>>

DoorInit ==
    /\ bolt_app = Config
    /\ event = [r \in Requests |-> Unset]
    /\ context = [r \in Requests |-> "none"]
    /\ pc = [r \in Requests |-> "idle"]
    /\ body_str = [r \in Requests |-> Unset]
    /\ body = [r \in Requests |-> Unset]
    /\ log = [r \in Requests |-> <<>>]
    /\ calls = [r \in Requests |-> <<>>]
    /\ answer = [r \in Requests |-> Unset]
    /\ response = [r \in Requests |-> <<>>]

handler(r) ==
    \/ GetBody(r)
    \/ Loads(r)
    \/ CheckUrlVerification(r)
    \/ Delegate(r)

DoorNext ==
    \E r \in Requests :
        \/ Receive(r)
        \/ handler(r)
        \/ HandleReturns(r)

-----------------------------------------------------------------------------
(* handle_member_joined_channel(event, client, logger) *)

UserIds == {"UBOT", "U1"}
ChannelIds == {"C1", "C2"}

\* The member_joined_channel events Bolt dispatches: 'user' and 'channel' are set.
JoinEvents ==
    { PyDict(("type" :> Lit("member_joined_channel")) @@ ("user" :> Lit(u)) @@ ("channel" :> Lit(c)))
        : u \in UserIds, c \in ChannelIds }

\* Outcomes of client.auth_test(): a response dict (with or without
\* 'user_id'), or an exception raised by the client.
AuthTestOutcomes ==
    { [exc |-> "none", val |-> PyDict(("ok" :> PyBool(TRUE)) @@ ("user_id" :> Lit("UBOT")))],
      [exc |-> "none", val |-> PyDict("ok" :> PyBool(TRUE))],
      [exc |-> "SlackApiError"] }

\* Outcomes of client.chat_postMessage(...): sent, or an exception raised.
PostOutcomes == {"none", "SlackApiError", "TimeoutError"}

\* Lines 43-48: the f-string, as the str it evaluates to.
welcome_message(uid) ==
    PyStr(<<Chars("Welcome! :tada: "), Chars("<@")>> \o uid.s
          \o <<Chars(">"), Chars(", thanks for joining this channel!\n\n"),
               Chars("In this channel, we primarily share *the latest project updates and technical discussions*.\n"),
               Chars("Feel free to introduce yourself in the #general channel!\n"),
               Chars("If you have any questions, don't hesitate to ask! :bulb:")>>)

\* Line 38: client.auth_test().get("user_id") == user_id
IsBotItself(authVal, uid) == PyEq(DictGet(authVal, "user_id"), uid)

\* Mutant of ExceptException: `except SlackApiError`.
ExceptSlackApiError(exc) == exc = "SlackApiError"

\* Line 57: `except Exception` around the chat_postMessage call.
ExceptException(exc) == exc \in {"SlackApiError", "TimeoutError"}

\* Bolt calls the listener; lines 33-34 read the event.
Dispatch(j) ==
    /\ jpc[j] = "idle"
    /\ \E ev \in JoinEvents :
          /\ jevent' = [jevent EXCEPT ![j] = ev]
          /\ user_id' = [user_id EXCEPT ![j] = ev.d["user"]]
          /\ channel_id' = [channel_id EXCEPT ![j] = ev.d["channel"]]
    /\ jpc' = [jpc EXCEPT ![j] = "L38"]
    /\ UNCHANGED <<auth, posts, postExc, jlog, doorVars>>

\* Lines 38-39: the identity query and the self-join test.  An exception
\* raised by auth_test is outside any try block and leaves the listener.
AuthTest(j) ==
    /\ jpc[j] = "L38"
    /\ \E o \in AuthTestOutcomes :
          /\ auth' = [auth EXCEPT ![j] = o]
          /\ jpc' = [jpc EXCEPT ![j] =
                        IF o.exc # "none" THEN "raised"
                        ELSE IF IsBotItself(o.val, user_id[j]) THEN "done"
                        ELSE "L52"]
    /\ UNCHANGED <<jevent, user_id, channel_id, posts, postExc, jlog, doorVars>>

\* The keyword arguments of the call at lines 52-55.
PostArgs(j) == [channel |-> channel_id[j], text |-> welcome_message(user_id[j])]

\* Lines 50-58: where control goes and what is logged after the call
\* raised exc ("none": it returned).
AfterPost(exc) ==
    IF exc = "none"
    THEN [pc |-> "done", log |-> <<LogRecord("info", "Welcome message sent")>>]
    ELSE IF ExceptException(exc)
         THEN [pc |-> "done", log |-> <<LogRecord("error", "Error sending welcome message")>>]
         ELSE [pc |-> "raised", log |-> <<>>]

\* Lines 50-58: the post inside try/except.
PostMessage(j) ==
    /\ jpc[j] = "L52"
    /\ posts' = [posts EXCEPT ![j] = Append(@, PostArgs(j))]
    /\ \E exc \in PostOutcomes :
          /\ postExc' = [postExc EXCEPT ![j] = exc]
          /\ jlog' = [jlog EXCEPT ![j] = @ \o AfterPost(exc).log]
          /\ jpc' = [jpc EXCEPT ![j] = AfterPost(exc).pc]
    /\ UNCHANGED <<jevent, user_id, channel_id, auth, doorVars>>

JoinInit ==
    /\ jpc = [j \in Joins |-> "idle"]
    /\ jevent = [j \in Joins |-> Unset]
    /\ user_id = [j \in Joins |-> Unset]
    /\ channel_id = [j \in Joins |-> Unset]
    /\ auth = [j \in Joins |-> [exc |-> "unset"]]
    /\ posts = [j \in Joins |-> <<>>]
    /\ postExc = [j \in Joins |-> "unset"]
    /\ jlog = [j \in Joins |-> <<>>]

handle_member_joined_channel(j) ==
    \/ AuthTest(j)
    \/ PostMessage(j)

JoinNext ==
    \E j \in Joins :
        \/ Dispatch(j)
        \/ handle_member_joined_channel(j)

-----------------------------------------------------------------------------
(* Specifications *)

Init == DoorInit /\ JoinInit

\* The front door alone.
Next == DoorNext
Spec == Init /\ [][Next]_vars

\* The listener alone.
JoinSpec == Init /\ [][JoinNext]_vars

\* One event for each path through handler: no 'body' key, '', a decode
\* error, a body that is not text, a document that is no object, another
\* event type, url_verification without challenge, with a challenge string,
\* with a challenge number.
PathEvents ==
    { EventWithoutBody,
      EventWith(PyStr(<<>>)),
      EventWith(PyStr(<<Chars("payload=%7B%7D")>>)),
      EventWith(PyDict(("type" :> Lit("url_verification")) @@ ("challenge" :> Lit("abc123")))),
      EventWith(PyStr(<<Tok("null")>>)),
      EventWith(PyStr(TypeChallenge(<<StrTok("event_callback")>>, <<StrTok("abc123")>>))),
      EventWith(PyStr(Object1(Member("type", <<StrTok("url_verification")>>)))),
      EventWith(PyStr(UrlVerification(<<StrTok("abc123")>>))),
      EventWith(PyStr(UrlVerification(<<NumTok(123)>>))) }

ReceivePath(r) == ReceiveFrom(r, PathEvents)

FairNext ==
    \E r \in Requests :
        \/ ReceivePath(r)
        \/ handler(r)
        \/ HandleReturns(r)

\* The front door when Python runs every invocation to its end and every
\* slack_handler.handle call returns.
FairSpec ==
    /\ Init
    /\ [][FairNext]_vars
    /\ \A r \in Requests : WF_vars(handler(r) \/ HandleReturns(r))

-----
(* Properties *)

Received(r) == pc[r] # "idle"
Returned(r) == pc[r] = "done"

\* The body of the request as the runtime delivered it.
BodyOf(r) == DictGet(event[r], "body")

HasNoBody(ev) ==
    \/ "body" \notin DOMAIN ev.d
    \/ ev.d["body"].t = "None"
    \/ (ev.d["body"].t = "str" /\ ev.d["body"].s = <<>>)

NonEmptyText(b) == b.t = "str" /\ b.s # <<>>

\* b is text that decodes to a JSON object whose "type" is "url_verification".
TypeIsUrlVerification(b) ==
    /\ NonEmptyText(b)
    /\ LET j == json_loads(b)
       IN /\ j.exc = "none"
          /\ j.val.t = "dict"
          /\ "type" \in DOMAIN j.val.d
          /\ j.val.d["type"].t = "str"
          /\ j.val.d["type"].s = <<Chars("url_verification")>>

HasChallenge(b) == "challenge" \in DOMAIN json_loads(b).val.d
ChallengeOf(b) == json_loads(b).val.d["challenge"]

\* b is a handshake payload: url_verification with a non-empty challenge string.
IsHandshake(b) ==
    /\ TypeIsUrlVerification(b)
    /\ HasChallenge(b)
    /\ ChallengeOf(b).t = "str"
    /\ ChallengeOf(b).s # <<>>

\* {statusCode: 200, headers: {Content-Type: text/plain}, body: c}
ExpectedEcho(c) ==
    [t |-> "dict",
     d |-> ("statusCode" :> [t |-> "int", n |-> 200])
           @@ ("headers" :> [t |-> "dict", d |-> ("Content-Type" :> Lit("text/plain"))])
           @@ ("body" :> c)]

IsEcho(resp) == "headers" \in DOMAIN resp.d /\ resp = ExpectedEcho(resp.d["body"])

\* slack_handler.handle was called once, with the event and context received.
ForwardedOnce(r) == calls[r] = <<[event |-> event[r], context |-> context[r]]>>

\* handler returned what slack_handler.handle answered.
CollabResult(r) == answer[r] \in CollabResponses /\ response[r] = <<answer[r]>>

Delegated(r) ==
    /\ pc[r] # "raised"
    /\ Len(calls[r]) <= 1
    /\ response[r] # <<>> => Returned(r)
    /\ Returned(r) => ForwardedOnce(r) /\ CollabResult(r)

\* C1: a url_verification request with a non-empty challenge string c is
\* answered with exactly {200, Content-Type: text/plain, body c} and
\* slack_handler.handle is never called for it.
C1_HandshakeEcho ==
    \A r \in Requests :
        (Received(r) /\ IsHandshake(BodyOf(r))) =>
            /\ calls[r] = <<>>
            /\ pc[r] \in {"L71", "L79", "L82", "done"}
            /\ Returned(r) => response[r] = <<ExpectedEcho(ChallengeOf(BodyOf(r)))>>
            /\ (Returned(r) /\ BodyOf(r) = PyStr(UrlVerification(<<StrTok("abc123")>>)))
                  => response[r][1].d["body"] = PyStr(<<Chars("abc123")>>)

C1_Witness ==
    \E r \in Requests :
        /\ Returned(r)
        /\ BodyOf(r) = PyStr(UrlVerification(<<StrTok("abc123")>>))
        /\ Len(response[r]) = 1

\* C2: a request with no body (key missing, None or '') never reaches
\* json.loads; slack_handler.handle is called exactly once with the event
\* and context received and its answer is returned unchanged.
C2_NoBodyPassThrough ==
    \A r \in Requests :
        (Received(r) /\ HasNoBody(event[r])) =>
            /\ pc[r] \in {"L71", "L75", "handle", "done"}
            /\ body[r] = Unset
            /\ log[r] = <<>>
            /\ pc[r] \in {"L71", "L75"} => calls[r] = <<>>
            /\ pc[r] \in {"handle", "done"} => ForwardedOnce(r)
            /\ response[r] # <<>> => Returned(r)
            /\ Returned(r) => CollabResult(r)

C2_Witness ==
    \E r \in Requests :
        /\ Returned(r)
        /\ "body" \in DOMAIN event[r].d
        /\ BodyOf(r) = PyStr(<<>>)
        /\ Len(calls[r]) = 1

\* C3: a url_verification request whose challenge is absent or empty is not
\* echoed: it is forwarded and the collaborator's response is returned.
C3_MissingChallengeForwarded ==
    \A r \in Requests :
        (/\ Received(r)
         /\ TypeIsUrlVerification(BodyOf(r))
         /\ (HasChallenge(BodyOf(r)) =>
                ChallengeOf(BodyOf(r)).t = "str" /\ ChallengeOf(BodyOf(r)).s = <<>>))
        => Delegated(r)

C3_Witness ==
    \E r \in Requests :
        /\ Returned(r)
        /\ BodyOf(r) = PyStr(UrlVerification(<<StrTok("")>>))
        /\ ForwardedOnce(r)

\* C4: a non-empty body that is not JSON makes handler raise nothing: the
\* decode error is caught (a warning is logged), the type test is skipped,
\* and the request is forwarded.
C4_ParseFailureForwarded ==
    \A r \in Requests :
        (/\ Received(r)
         /\ NonEmptyText(BodyOf(r))
         /\ json_loads(BodyOf(r)).exc = "JSONDecodeError")
        => /\ Delegated(r)
           /\ pc[r] # "L82"
           /\ pc[r] \in {"L105", "handle", "done"} =>
                 Len(log[r]) = 1 /\ log[r][1].level = "warning"

C4_Witness ==
    \E r \in Requests :
        /\ Returned(r)
        /\ BodyOf(r) = PyStr(<<Chars("payload=%7B%7D")>>)
        /\ ForwardedOnce(r)

\* C9: an error in the try block that is not a JSON syntax error (the body
\* decodes to a non-object, or the body is not text) is caught and logged
\* as an error; handler does not raise and forwards the request once.
C9_UnexpectedErrorForwarded ==
    \A r \in Requests :
        (/\ Received(r)
         /\ Truthy(BodyOf(r))
         /\ \/ BodyOf(r).t # "str"
            \/ (json_loads(BodyOf(r)).exc = "none" /\ json_loads(BodyOf(r)).val.t # "dict"))
        => /\ Delegated(r)
           /\ pc[r] \in {"L105", "handle", "done"} =>
                 Len(log[r]) = 1 /\ log[r][1].level = "error"

C9_Witness ==
    \E r, q \in Requests :
        /\ Returned(r) /\ BodyOf(r) = PyStr(<<Tok("null")>>) /\ ForwardedOnce(r)
        /\ Returned(q) /\ BodyOf(q).t = "dict" /\ ForwardedOnce(q)

\* C8 (as claimed): the echo is returned only for a non-empty challenge
\* string; every other request is forwarded, so the echoed body is a str.
C8_EchoOnlyStringChallenge ==
    \A r \in Requests :
        Returned(r) =>
            IF IsHandshake(BodyOf(r))
            THEN calls[r] = <<>> /\ response[r][1].d["body"].t = "str"
            ELSE ForwardedOnce(r) /\ CollabResult(r)

\* The body makes lines 82-85 take the return branch.
ShouldEcho(b) ==
    TypeIsUrlVerification(b) /\ HasChallenge(b) /\ Truthy(ChallengeOf(b))

\* What handler is to return for request r, from its body and the answer to it.
Decision(r) ==
    IF ShouldEcho(BodyOf(r)) THEN ExpectedEcho(ChallengeOf(BodyOf(r))) ELSE answer[r]

OwnOutcome ==
    \A r \in Requests :
        Returned(r) =>
            /\ response[r] = <<Decision(r)>>
            /\ (calls[r] = <<>>) <=> ShouldEcho(BodyOf(r))

SameInSameOut ==
    \A r, q \in Requests :
        (Returned(r) /\ Returned(q) /\ event[r] = event[q] /\ answer[r] = answer[q])
            => response[r] = response[q]

NothingSharedWritten ==
    /\ bolt_app' = bolt_app
    /\ \A r \in Requests :
          Received(r) => event'[r] = event[r] /\ context'[r] = context[r]

\* C10: the outcome of a request is a function of its own body and of the
\* collaborator's answer to it; two requests with the same event and answer
\* get the same response whatever ran in between; no step changes the
\* module globals or the event and context of a request already received.
C10_Stateless ==
    /\ [](OwnOutcome /\ SameInSameOut)
    /\ [][NothingSharedWritten]_vars

C10_Witness ==
    \E r, q \in Requests :
        /\ r # q
        /\ Returned(r) /\ calls[r] = <<>>
        /\ pc[q] = "handle" /\ body[q] # Unset
        /\ event[r] # event[q]

\* At most one response and one call; a response is the echo or the answer.
OneResponse(r) ==
    /\ Len(response[r]) <= 1
    /\ Len(calls[r]) <= 1
    /\ pc[r] # "raised"
    /\ (Len(response[r]) = 1) <=> Returned(r)
    /\ Returned(r) =>
          \/ IsEcho(response[r][1]) /\ calls[r] = <<>>
          \/ ~IsEcho(response[r][1]) /\ ForwardedOnce(r) /\ CollabResult(r)

\* C6: every request received is eventually answered, with exactly one
\* response: the echo (and then no call of slack_handler.handle) or the
\* answer of the single call of slack_handler.handle.
C6_AlwaysResponds ==
    /\ [](\A r \in Requests : OneResponse(r))
    /\ \A r \in Requests : Received(r) ~> Returned(r)

C6_Witness ==
    \E r, q \in Requests :
        /\ Returned(r) /\ IsEcho(response[r][1])
        /\ Returned(q) /\ response[q] = <<answer[q]>> /\ Len(calls[q]) = 1

-----------------------------------------------------------------------------
(* Properties of the listener *)

RECURSIVE ContainsAt(_, _, _)
ContainsAt(s, m, i) ==
    IF i + Len(m) - 1 > Len(s) THEN FALSE
    ELSE SubSeq(s, i, i + Len(m) - 1) = m \/ ContainsAt(s, m, i + 1)

\* The mention <@uid>
Mention(uid) == <<Chars("<@")>> \o uid.s \o <<Chars(">")>>

JoinerIsBot(j) ==
    LET bot == DictGet(auth[j].val, "user_id")
    IN bot.t = "str" /\ bot = jevent[j].d["user"]

\* C5: once the identity query has answered, a join by the bot itself posts
\* nothing; any other join makes exactly one chat_postMessage call, to the
\* event's channel with a text mentioning the joiner, and an error raised by
\* that call is logged and does not leave the listener.
C5_WelcomeOncePerJoin ==
    \A j \in Joins :
        /\ Len(posts[j]) <= 1
        /\ posts[j] # <<>> => jpc[j] = "done"
        /\ (jpc[j] = "done" /\ auth[j].exc = "none") =>
              IF JoinerIsBot(j)
              THEN posts[j] = <<>>
              ELSE /\ Len(posts[j]) = 1
                   /\ posts[j][1].channel = jevent[j].d["channel"]
                   /\ ContainsAt(posts[j][1].text.s, Mention(jevent[j].d["user"]), 1)
                   /\ postExc[j] # "none" =>
                         Len(jlog[j]) = 1 /\ jlog[j][1].level = "error"

C5_Witness ==
    \E j, k \in Joins :
        /\ jpc[j] = "done" /\ auth[j].exc = "none" /\ JoinerIsBot(j) /\ posts[j] = <<>>
        /\ jpc[k] = "done" /\ auth[k].exc = "none" /\ ~JoinerIsBot(k)
        /\ postExc[k] = "TimeoutError" /\ Len(posts[k]) = 1

\* C7 (as claimed): the listener returns normally whatever the messaging
\* client raises, in auth_test or in chat_postMessage.
C7_NeverPropagates ==
    \A j \in Joins : jpc[j] # "raised"

====
